---- MODULE Spec2Model ----
(***************************************************************************)
(* Capacity-reservation and booking-consistency engine of the museum       *)
(* booking backend (src/backend/app.py).                                   *)
(*                                                                         *)
(* The state is the committed content of the datastore (time slots,        *)
(* bookings, payments) and, per request-handling thread, the position of   *)
(* the handler it runs together with the values its session holds.         *)
(*                                                                         *)
(* Datastore semantics assumed by the translation (the handlers use the    *)
(* SQLAlchemy session API; the engine itself is not part of the source):   *)
(*   - a plain SELECT returns the last committed row values;               *)
(*   - SELECT ... FOR UPDATE (with_for_update) takes an exclusive lock on  *)
(*     the selected row, held until the session commits or rolls back;     *)
(*   - a flushed INSERT / UPDATE locks the row it writes until the session *)
(*     commits or rolls back; a statement that needs a locked row waits;   *)
(*   - an attribute assignment such as  x.booked_count += n  is computed   *)
(*     in the handler from the value the session loaded, and the UPDATE    *)
(*     emitted at commit writes that absolute value;                       *)
(*   - commit applies all writes of the session at once; rollback drops    *)
(*     them, expires the persistent objects of the session (their next     *)
(*     attribute access re-reads the row) and turns objects inserted in    *)
(*     the rolled back transaction into transient ones that keep their     *)
(*     attribute values.                                                   *)
(***************************************************************************)
EXTENDS Integers, Sequences, FiniteSets, TLC

VARIABLES
    time_slots,   \* table TimeSlot: key (date, slot_time, ticket_type) -> rows, oldest first
    bookings,     \* table Booking, in creation order; booking_id = index
    payments,     \* table Payment, in creation order; id = index
    pc,           \* per thread: position in the handler it runs ("idle": none)
    ctx,          \* per thread: request data and values held by its session
    cal,          \* per thread: loop state of get_calendar_data
    resp,         \* the response sent by the last step (BlankResp: none)
    served        \* number of requests received so far

vars == <<time_slots, bookings, payments, pc, ctx, cal, resp, served>>

----------------------------------------------------------------------------
(* Bounds and input domains *)

\* At most MaxRequests requests are received in a run.
MaxRequests == 4

Workers == {"w1", "w2"}

\* Days of the one calendar month modelled; Today is datetime.now().date().
FirstDay == 1
LastDay == 2
Today == 2
Dates == FirstDay..LastDay
\* A date string that strptime rejects.
BadDate == 0

Times == {"10:00 AM", "2:00 PM"}
TicketTypes == {"Regular", "VIP"}
ReqNationalities == {"Local", "Other"}
\* <<adults, children>> of a request.
VisitorInputs == {<<-1, 0>>, <<0, -1>>, <<0, 0>>, <<0, 1>>, <<48, 1>>, <<51, 0>>}
AmountInputs == {10}

DefaultCapacity == 50
LimitedThreshold == 5
PricingValidDays == 365

SlotKeys == Dates \X Times \X TicketTypes

----------------------------------------------------------------------------
(* Pricing: seeded by init_db, never changed by a request *)

PricingTable ==
    << [nationality |-> "Local", ticket_type |-> "Regular",
        adult_price |-> 20, child_price |-> 10,
        effective_from |-> Today, effective_to |-> Today + PricingValidDays],
       [nationality |-> "Foreign", ticket_type |-> "Regular",
        adult_price |-> 30, child_price |-> 15,
        effective_from |-> Today, effective_to |-> Today + PricingValidDays] >>

\* A match whose interval leaves out its last day.
PricingMatchesBeforeEnd(p, nationality, ticket_type, date) ==
    /\ p.nationality = nationality
    /\ p.ticket_type = ticket_type
    /\ p.effective_from <= date
    /\ p.effective_to > date

\* Lines 163-168 and 595-600.
PricingMatches(p, nationality, ticket_type, date) ==
    /\ p.nationality = nationality
    /\ p.ticket_type = ticket_type
    /\ p.effective_from <= date
    /\ p.effective_to >= date

\* Index of the first matching Pricing record, 0 when there is none.
PricingLookup(nationality, ticket_type, date) ==
    LET hits == {i \in 1..Len(PricingTable) :
                    PricingMatches(PricingTable[i], nationality, ticket_type, date)}
    IN  IF hits = {} THEN 0 ELSE CHOOSE i \in hits : \A j \in hits : i <= j

\* A total that charges the adult price for everybody.
TotalAmountAtAdultPrice(p, adults, children) ==
    (adults * p.adult_price) + (children * p.adult_price)

\* Line 175.
TotalAmount(p, adults, children) ==
    (adults * p.adult_price) + (children * p.child_price)

----------------------------------------------------------------------------
(* Rows and thread-local records *)

NewTimeSlot == [capacity |-> DefaultCapacity, booked_count |-> 0]

BlankCtx ==
    [date |-> 0, slot_time |-> "", ticket_type |-> "", nationality |-> "",
     adults |-> 0, children |-> 0, total_amount |-> 0,
     booking_id |-> 0, amount |-> 0, via |-> "backend", year |-> 0, month |-> 0,
     found |-> FALSE, created |-> FALSE, booked_count |-> 0, capacity |-> 0]

BlankCal == [current_date |-> 0, slots |-> <<>>, expired |-> FALSE, data |-> <<>>]

\* at_check is a ghost field: the remaining capacity at the capacity check.
\* email_answer is a ghost field: what the email endpoint did with the
\* frontend's request ("ok", "error" or "exception"; "" when none was made).
BlankResp ==
    [op |-> "", code |-> 0, kind |-> "", booking_id |-> 0, amount |-> 0,
     available |-> 0, at_check |-> 0, email |-> "", email_answer |-> "",
     prices |-> <<>>,
     status |-> <<>>, slots |-> <<>>, bookings |-> <<>>, calendar |-> <<>>]

Reply(op, code, kind) == [BlankResp EXCEPT !.op = op, !.code = code, !.kind = kind]

CtxKey(c) == <<c.date, c.slot_time, c.ticket_type>>

RECURSIVE SumBooked(_)
SumBooked(rows) ==
    IF rows = <<>> THEN 0 ELSE Head(rows).booked_count + SumBooked(Tail(rows))

----------------------------------------------------------------------------
(* Row locks, derived from the positions of the threads *)

\* w selected the first row of key k FOR UPDATE and has neither committed nor
\* rolled back: it holds the lock of that row.
HoldsSlotLock(w, k) == pc[w] = "cb_check" /\ CtxKey(ctx[w]) = k /\ ctx[w].found

SlotLockedByOther(w, k) == \E o \in Workers \ {w} : HoldsSlotLock(o, k)

\* w flushed the INSERT of a new row of key k and has neither committed nor
\* rolled back.
HoldsPendingInsert(w, k) == pc[w] = "cb_check" /\ CtxKey(ctx[w]) = k /\ ctx[w].created

\* w flushed the UPDATE of booking b and has neither committed nor rolled back.
HoldsBookingLock(w, b) == pc[w] = "pay_commit" /\ ctx[w].booking_id = b

BookingLockedByOther(w, b) == \E o \in Workers \ {w} : HoldsBookingLock(o, b)

\* A TimeSlot table without a key on (date, slot_time, ticket_type).
TimeSlotKeyNotUnique == FALSE

\* The TimeSlot table identifies a row by (date, slot_time, ticket_type).
TimeSlotKeyUnique == TRUE

\* A table that takes any row.
InsertAlwaysAllowed(rows) == TRUE

\* Whether a row may be inserted beside the committed rows of its key.
InsertAllowed(rows) == ~TimeSlotKeyUnique \/ rows = <<>>

\* An INSERT of key k by w waits while another session holds an uncommitted
\* INSERT of the same key.
InsertBlocked(w, k) ==
    TimeSlotKeyUnique /\ \E o \in Workers \ {w} : HoldsPendingInsert(o, k)

----------------------------------------------------------------------------
Init ==
    /\ time_slots = [k \in SlotKeys |-> <<>>]
    /\ bookings = <<>>
    /\ payments = <<>>
    /\ pc = [w \in Workers |-> "idle"]
    /\ ctx = [w \in Workers |-> BlankCtx]
    /\ cal = [w \in Workers |-> BlankCal]
    /\ resp = BlankResp
    /\ served = 0

\* A request is received by an idle thread.
Receive(w) ==
    /\ pc[w] = "idle"
    /\ served < MaxRequests
    /\ served' = served + 1

Finish(w, r) ==
    /\ pc' = [pc EXCEPT ![w] = "idle"]
    /\ ctx' = [ctx EXCEPT ![w] = BlankCtx]
    /\ resp' = r

\* The answer r of the backend's create_booking reaches the caller. A request
\* that came through the frontend and the gateway: the gateway hands an error
\* on with its status (src/gateway/app.py lines 136-145) and so does the
\* frontend (src/frontend/app.py lines 96-98); after a success the frontend
\* goes on to send the confirmation email (src/frontend/app.py lines 107-136).
Relay(w, via, r) ==
    IF via = "backend" THEN Finish(w, r)
    ELSE IF via = "gateway"
    THEN \* src/gateway/app.py lines 136-165: the gateway alone hands the
         \* answer and its status on, or answers 504 when it stopped waiting.
         \E timed_out \in BOOLEAN :
            Finish(w, IF timed_out THEN Reply("gateway_create_booking", 504, "timeout")
                      ELSE [r EXCEPT !.op = "gateway_create_booking"])
    ELSE IF r.code # 200 THEN Finish(w, [r EXCEPT !.op = "frontend_create_booking"])
    ELSE /\ pc' = [pc EXCEPT ![w] = "fe_email"]
         /\ ctx' = [ctx EXCEPT ![w] = [BlankCtx EXCEPT !.via = via,
                                                       !.booking_id = r.booking_id,
                                                       !.total_amount = r.amount]]
         /\ resp' = BlankResp

----------------------------------------------------------------------------
(* create_booking *)

\* A validation without the test of the total number of visitors.
ValidateBookingWithoutTotal(missing, date, nationality, ticket_type, adults, children) ==
    IF missing THEN "missing_fields"
    ELSE IF adults < 0 THEN "negative_adults"
    ELSE IF children < 0 THEN "negative_children"
    ELSE IF date = BadDate THEN "bad_date"
    ELSE IF PricingLookup(nationality, ticket_type, date) = 0 THEN "no_pricing"
    ELSE "ok"

\* Lines 99-180: validation of the request and the pricing lookup.
\* The outcome: "ok", or the kind of the error response.
ValidateBooking(missing, date, nationality, ticket_type, adults, children) ==
    IF missing THEN "missing_fields"
    ELSE IF adults < 0 THEN "negative_adults"
    ELSE IF children < 0 THEN "negative_children"
    ELSE IF adults + children <= 0 THEN "no_visitors"
    ELSE IF date = BadDate THEN "bad_date"
    ELSE IF PricingLookup(nationality, ticket_type, date) = 0 THEN "no_pricing"
    ELSE "ok"

\* The request bodies tried: the well-formed bodies for a priced nationality
\* and ticket type, and one body for each way a body can be refused before
\* the transaction (a field missing, an unparsable date, an unpriced
\* nationality or ticket type, each visitor count in VisitorInputs).
BaseRequest ==
    [missing |-> FALSE, date |-> Today, nationality |-> "Local",
     ticket_type |-> "Regular", slot_time |-> "10:00 AM", visitors |-> <<0, 1>>]

BookingRequests ==
    [missing : {FALSE}, date : Dates, nationality : {"Local"},
     ticket_type : {"Regular"}, slot_time : Times,
     visitors : {v \in VisitorInputs : v[1] >= 0 /\ v[2] >= 0 /\ v[1] + v[2] > 0}]
    \cup {[BaseRequest EXCEPT !.missing = TRUE], [BaseRequest EXCEPT !.date = BadDate]}
    \cup {[BaseRequest EXCEPT !.nationality = n] : n \in ReqNationalities}
    \cup {[BaseRequest EXCEPT !.ticket_type = t] : t \in TicketTypes}
    \cup {[BaseRequest EXCEPT !.visitors = v] : v \in VisitorInputs}

\* A SELECT that takes no notice of the row lock (a query without with_for_update).
SelectNeverBlocked(w, k) == FALSE

\* Lines 185-192: begin_nested and the SELECT ... FOR UPDATE of the slot.
SelectForUpdateBlocked(w, k) == SlotLockedByOther(w, k)

\* Lines 99-192: the request is validated and priced (no shared state is
\* read but the fixed Pricing table), then the transaction begins and the
\* slot is selected FOR UPDATE; the select waits while the row is locked.
CreateBookingBegin(w, rq, via) ==
        LET adults == rq.visitors[1]
            children == rq.visitors[2]
            k == <<rq.date, rq.slot_time, rq.ticket_type>>
            v == ValidateBooking(rq.missing, rq.date, rq.nationality, rq.ticket_type,
                                 adults, children)
        IN  IF v # "ok"
            THEN Relay(w, via, Reply("create_booking", 400, v))
            ELSE LET p == PricingTable[PricingLookup(rq.nationality, rq.ticket_type, rq.date)]
                     c == [BlankCtx EXCEPT !.date = rq.date, !.slot_time = rq.slot_time,
                                           !.ticket_type = rq.ticket_type,
                                           !.nationality = rq.nationality,
                                           !.via = via,
                                           !.adults = adults, !.children = children,
                                           !.total_amount = TotalAmount(p, adults, children)]
                 IN  /\ resp' = BlankResp
                     /\ IF time_slots[k] # <<>>
                        THEN /\ ~SelectForUpdateBlocked(w, k)
                             /\ pc' = [pc EXCEPT ![w] = "cb_check"]
                             /\ ctx' = [ctx EXCEPT ![w] =
                                    [c EXCEPT !.found = TRUE,
                                              !.booked_count = Head(time_slots[k]).booked_count,
                                              !.capacity = Head(time_slots[k]).capacity]]
                        ELSE /\ pc' = [pc EXCEPT ![w] = "cb_insert"]
                             /\ ctx' = [ctx EXCEPT ![w] = c]

CreateBookingStart(w) ==
    /\ Receive(w)
    /\ \E rq \in BookingRequests : CreateBookingBegin(w, rq, "backend")
    /\ UNCHANGED <<time_slots, bookings, payments, cal>>

\* Lines 194-203: no row was selected; the new TimeSlot is added and flushed.
\* Lines 241-245 answer a failed INSERT.
CreateBookingInsert(w) ==
    /\ UNCHANGED served
    /\ pc[w] = "cb_insert"
    /\ LET k == CtxKey(ctx[w])
       IN  /\ ~InsertBlocked(w, k)
           /\ IF InsertAllowed(time_slots[k])
              THEN /\ pc' = [pc EXCEPT ![w] = "cb_check"]
                   /\ ctx' = [ctx EXCEPT ![w].created = TRUE,
                                         ![w].booked_count = NewTimeSlot.booked_count,
                                         ![w].capacity = NewTimeSlot.capacity]
                   /\ resp' = BlankResp
              ELSE Relay(w, ctx[w].via, Reply("create_booking", 500, "failed"))
    /\ UNCHANGED <<time_slots, bookings, payments, cal>>

\* A capacity test that leaves out the visitors of the request.
CapacityExceededIgnoringVisitors(booked_count, total_visitors, capacity) ==
    booked_count > capacity

\* Line 208.
CapacityExceeded(booked_count, total_visitors, capacity) ==
    booked_count + total_visitors > capacity

\* Lines 217-228.
NewBooking(c) ==
    [date |-> c.date, slot_time |-> c.slot_time, ticket_type |-> c.ticket_type,
     nationality |-> c.nationality, adults |-> c.adults, children |-> c.children,
     total_amount |-> c.total_amount,
     status |-> "pending", payment_status |-> "pending"]

\* A commit that stores the Booking but not the slot the session created.
ReservedRowsWithoutNewSlot(rows, c) ==
    IF c.created THEN rows
    ELSE <<[capacity |-> c.capacity,
            booked_count |-> c.booked_count + (c.adults + c.children)]>> \o Tail(rows)

\* A commit that stores a new slot as it was inserted, without the increment.
ReservedRowsNewSlotUntouched(rows, c) ==
    IF c.created
    THEN Append(rows, [capacity |-> c.capacity, booked_count |-> c.booked_count])
    ELSE <<[capacity |-> c.capacity,
            booked_count |-> c.booked_count + (c.adults + c.children)]>> \o Tail(rows)

\* Lines 214 and 231: the rows of the slot's key once the session of c commits
\* booked_count (the loaded value plus the visitors) for the row it holds.
ReservedRows(rows, c) ==
    LET row == [capacity |-> c.capacity,
                booked_count |-> c.booked_count + (c.adults + c.children)]
    IN  IF c.created THEN Append(rows, row) ELSE <<row>> \o Tail(rows)

\* A commit that loses the new Booking.
BookingsWithoutNew(bks, c) == bks

\* Lines 230-231: the Booking table once the session of c commits.
BookingsAfterCreate(bks, c) == Append(bks, NewBooking(c))

\* A rollback that leaves behind the row the session inserted.
RowsKeptAfterRollback(rows, c) ==
    IF c.created
    THEN Append(rows, [capacity |-> c.capacity, booked_count |-> c.booked_count])
    ELSE rows

\* Lines 209 and 242: the rows of the slot's key after the session of c rolls back.
RolledBackRows(rows, c) == rows

\* Lines 208-245: the capacity check, then either the rollback and the error
\* (the message reads the slot again, line 211), or the increment, the new
\* Booking and the commit; a fault raised inside the transaction rolls back.
CreateBookingCheck(w) ==
    /\ UNCHANGED served
    /\ pc[w] = "cb_check"
    /\ LET c == ctx[w]
           k == CtxKey(c)
           remaining == c.capacity - c.booked_count
       IN  IF CapacityExceeded(c.booked_count, c.adults + c.children, c.capacity)
           THEN /\ time_slots' = [time_slots EXCEPT ![k] = RolledBackRows(@, c)]
                /\ bookings' = bookings
                /\ IF c.found
                   THEN \* the expired row is read again for the message
                        /\ pc' = [pc EXCEPT ![w] = "cb_report"]
                        /\ ctx' = ctx /\ resp' = BlankResp
                   ELSE \* the rolled back new row keeps its attribute values
                        Relay(w, c.via, [Reply("create_booking", 400, "capacity")
                                      EXCEPT !.available = remaining,
                                             !.at_check = remaining])
           ELSE \/ /\ time_slots' = [time_slots EXCEPT ![k] = ReservedRows(@, c)]
                   /\ bookings' = BookingsAfterCreate(bookings, c)
                   /\ Relay(w, c.via, [Reply("create_booking", 200, "created")
                                    EXCEPT !.booking_id = Len(bookings) + 1,
                                           !.amount = c.total_amount])
                \/ /\ time_slots' = [time_slots EXCEPT ![k] = RolledBackRows(@, c)]
                   /\ bookings' = bookings
                   /\ Relay(w, c.via, Reply("create_booking", 500, "failed"))
    /\ UNCHANGED <<payments, cal>>

\* Line 211, evaluated after the rollback of line 209: the row is read again.
ReportedAvailable(rows, c) == Head(rows).capacity - Head(rows).booked_count

CreateBookingReport(w) ==
    /\ UNCHANGED served
    /\ pc[w] = "cb_report"
    /\ LET c == ctx[w]
       IN  Relay(w, c.via, [Reply("create_booking", 400, "capacity")
                         EXCEPT !.available = ReportedAvailable(time_slots[CtxKey(c)], c),
                                !.at_check = c.capacity - c.booked_count])
    /\ UNCHANGED <<time_slots, bookings, payments, cal>>

create_booking(w) ==
    \/ CreateBookingStart(w)
    \/ CreateBookingInsert(w)
    \/ CreateBookingCheck(w)
    \/ CreateBookingReport(w)

----------------------------------------------------------------------------
(* initialize_payment *)

\* The booking ids tried: those of the bookings made, and one of no booking.
BookingIds == 1..(Len(bookings) + 1)

\* Checks that leave out the test of payment_status.
PaymentPrecheckWithoutPaidTest(bks, missing, booking_id) ==
    IF missing THEN "missing_fields"
    ELSE IF booking_id \notin 1..Len(bks) THEN "not_found"
    ELSE "ok"

\* Lines 619-634: the outcome of the checks made before the transaction.
PaymentPrecheck(bks, missing, booking_id) ==
    IF missing THEN "missing_fields"
    ELSE IF booking_id \notin 1..Len(bks) THEN "not_found"
    ELSE IF bks[booking_id].payment_status = "completed" THEN "already_paid"
    ELSE "ok"

PrecheckCode(v) == IF v = "not_found" THEN 404 ELSE 400

InitializePaymentStart(w) ==
    /\ Receive(w)
    /\ \E missing \in BOOLEAN, booking_id \in BookingIds, amount \in AmountInputs :
        LET v == PaymentPrecheck(bookings, missing, booking_id)
        IN  IF v # "ok"
            THEN Finish(w, [Reply("initialize_payment", PrecheckCode(v), v)
                               EXCEPT !.booking_id = IF missing THEN 0 ELSE booking_id])
            ELSE /\ pc' = [pc EXCEPT ![w] = "pay_flush"]
                 /\ ctx' = [ctx EXCEPT ![w] =
                        [BlankCtx EXCEPT !.booking_id = booking_id, !.amount = amount,
                                         !.date = bookings[booking_id].date,
                                         !.slot_time = bookings[booking_id].slot_time,
                                         !.ticket_type = bookings[booking_id].ticket_type]]
                 /\ resp' = BlankResp
    /\ UNCHANGED <<time_slots, bookings, payments, cal>>

\* Lines 647-661: begin_nested, the Payment is added and the booking marked;
\* the TimeSlot query first flushes both (the UPDATE locks the booking row),
\* then reads the slot with a plain SELECT.
InitializePaymentFlush(w) ==
    /\ UNCHANGED served
    /\ pc[w] = "pay_flush"
    /\ ~BookingLockedByOther(w, ctx[w].booking_id)
    /\ LET rows == time_slots[CtxKey(ctx[w])]
       IN  ctx' = [ctx EXCEPT
                ![w].found = (rows # <<>>),
                ![w].booked_count = IF rows # <<>> THEN Head(rows).booked_count ELSE 0,
                ![w].capacity = IF rows # <<>> THEN Head(rows).capacity ELSE 0]
    /\ pc' = [pc EXCEPT ![w] = "pay_commit"]
    /\ resp' = BlankResp
    /\ UNCHANGED <<time_slots, bookings, payments, cal>>

\* Line 667.
PaymentCapacityExceeded(booked_count, capacity) == booked_count + 1 > capacity

\* The Payment as it is constructed, before it is marked completed.
NewPendingPayment(c) == [booking_id |-> c.booking_id, amount |-> c.amount, status |-> "pending"]

\* Lines 637-643 and 652.
NewPayment(c) == [booking_id |-> c.booking_id, amount |-> c.amount, status |-> "completed"]

\* A booking marked paid but left unconfirmed.
PaidUnconfirmedBooking(b) == [b EXCEPT !.payment_status = "completed"]

\* Lines 653-654.
ConfirmedBooking(b) == [b EXCEPT !.payment_status = "completed", !.status = "confirmed"]

\* Lines 671 and 674: the UPDATE of the slot writes the loaded value plus one.
PaidRows(rows, c) ==
    <<[Head(rows) EXCEPT !.booked_count = c.booked_count + 1]>> \o Tail(rows)

\* Lines 649 and 674.
PaymentsAfterPay(pays, c) == Append(pays, NewPayment(c))

\* Lines 664, 668 and 690: the Booking and Payment tables after the session
\* of c rolls back (the flushed INSERT and UPDATE are undone).
BookingsAfterRollback(bks, c) == bks

\* A rollback that leaves behind the Payment the session inserted.
PaymentsKeptAfterRollback(pays, c) == Append(pays, NewPayment(c))

PaymentsAfterRollback(pays, c) == pays

\* An answer that reports the payment failed when the notifier failed.
PaidReplyFailingOnEmail(c, email_sent) ==
    IF email_sent
    THEN [Reply("initialize_payment", 200, "paid")
             EXCEPT !.booking_id = c.booking_id, !.email = "sent"]
    ELSE [Reply("initialize_payment", 500, "failed")
             EXCEPT !.booking_id = c.booking_id, !.email = "failed"]

\* Lines 677-687: the answer after the commit; email_sent is the result of
\* send_booking_confirmation (lines 322-353), which is only logged.
PaidReply(c, email_sent) ==
    [Reply("initialize_payment", 200, "paid")
        EXCEPT !.booking_id = c.booking_id,
               !.email = IF email_sent THEN "sent" ELSE "failed"]

\* Lines 663-692: slot missing or full: rollback and error; otherwise the
\* increment and the commit (its UPDATE waits for the slot's row lock), then
\* the confirmation email, whose failure is only logged (lines 677-680).
\* A fault raised inside the transaction rolls back (lines 689-692).
InitializePaymentCommit(w) ==
    /\ UNCHANGED served
    /\ pc[w] = "pay_commit"
    /\ LET c == ctx[w]
           k == CtxKey(c)
           rolled_back == /\ time_slots' = time_slots
                          /\ bookings' = BookingsAfterRollback(bookings, c)
                          /\ payments' = PaymentsAfterRollback(payments, c)
       IN  IF ~c.found
           THEN /\ rolled_back
                /\ Finish(w, [Reply("initialize_payment", 404, "slot_not_found")
                                 EXCEPT !.booking_id = c.booking_id])
           ELSE IF PaymentCapacityExceeded(c.booked_count, c.capacity)
           THEN /\ rolled_back
                /\ Finish(w, [Reply("initialize_payment", 400, "capacity")
                                 EXCEPT !.booking_id = c.booking_id])
           ELSE \/ /\ ~SlotLockedByOther(w, k)
                   /\ time_slots' = [time_slots EXCEPT ![k] = PaidRows(@, c)]
                   /\ bookings' = [bookings EXCEPT ![c.booking_id] = ConfirmedBooking(@)]
                   /\ payments' = PaymentsAfterPay(payments, c)
                   /\ \E email_sent \in BOOLEAN : Finish(w, PaidReply(c, email_sent))
                \/ /\ rolled_back
                   /\ Finish(w, [Reply("initialize_payment", 500, "failed")
                                    EXCEPT !.booking_id = c.booking_id])
    /\ UNCHANGED cal

initialize_payment(w) ==
    \/ InitializePaymentStart(w)
    \/ InitializePaymentFlush(w)
    \/ InitializePaymentCommit(w)

----------------------------------------------------------------------------
(* Reading the slots of a date *)

\* The order in which the rows of one date are listed.
KeyOrder ==
    << <<"10:00 AM", "Regular">>, <<"2:00 PM", "Regular">>,
       <<"10:00 AM", "VIP">>, <<"2:00 PM", "VIP">> >>

\* Lines 421-427: a slot as it is listed in a response.
SlotView(slot_time, ticket_type, row) ==
    [time |-> slot_time, available |-> row.capacity - row.booked_count,
     capacity |-> row.capacity, booked |-> row.booked_count,
     ticket_type |-> ticket_type]

RECURSIVE ViewRows(_, _, _)
ViewRows(slot_time, ticket_type, rows) ==
    IF rows = <<>> THEN <<>>
    ELSE <<SlotView(slot_time, ticket_type, Head(rows))>>
            \o ViewRows(slot_time, ticket_type, Tail(rows))

\* TimeSlot.query.filter_by(date=d).all() on table t, as listed views.
RECURSIVE SlotsOfDateFrom(_, _, _)
SlotsOfDateFrom(t, d, i) ==
    IF i > Len(KeyOrder) THEN <<>>
    ELSE ViewRows(KeyOrder[i][1], KeyOrder[i][2], t[<<d, KeyOrder[i][1], KeyOrder[i][2]>>])
            \o SlotsOfDateFrom(t, d, i + 1)

SlotsOfDate(t, d) == SlotsOfDateFrom(t, d, 1)

\* Line 418: Booking.query.filter_by(date=d).all(): the ids, in table order.
RECURSIVE BookingsOfDateFrom(_, _, _)
BookingsOfDateFrom(bks, d, i) ==
    IF i > Len(bks) THEN <<>>
    ELSE (IF bks[i].date = d THEN <<i>> ELSE <<>>) \o BookingsOfDateFrom(bks, d, i + 1)

BookingsOfDate(bks, d) == BookingsOfDateFrom(bks, d, 1)

MorningKey(d) == <<d, "10:00 AM", "Regular">>
AfternoonKey(d) == <<d, "2:00 PM", "Regular">>

\* The two default slots of date d can be inserted and committed.
DefaultSlotsBlocked(w, d) == InsertBlocked(w, MorningKey(d)) \/ InsertBlocked(w, AfternoonKey(d))

DefaultSlotsAllowed(t, d) ==
    InsertAllowed(t[MorningKey(d)]) /\ InsertAllowed(t[AfternoonKey(d)])

\* A materialization whose slots start with one place taken.
WithBookedDefaultSlots(t, d) ==
    [t EXCEPT ![MorningKey(d)] = Append(@, [NewTimeSlot EXCEPT !.booked_count = 1]),
              ![AfternoonKey(d)] = Append(@, [NewTimeSlot EXCEPT !.booked_count = 1])]

\* A materialization that makes the morning slot only.
WithMorningSlotOnly(t, d) == [t EXCEPT ![MorningKey(d)] = Append(@, NewTimeSlot)]

\* Lines 391-409, 745-761: the table after the two default slots of d are committed.
WithDefaultSlots(t, d) ==
    [t EXCEPT ![MorningKey(d)] = Append(@, NewTimeSlot),
              ![AfternoonKey(d)] = Append(@, NewTimeSlot)]

\* Lines 411, 762: the list [morning_slot, afternoon_slot]. The commit
\* expired both objects, so their attributes are read again from table t
\* when the answer is built (lines 421-427, 774-783).
CreatedSlotViews(t, d) ==
    << SlotView("10:00 AM", "Regular", Head(t[MorningKey(d)])),
       SlotView("2:00 PM", "Regular", Head(t[AfternoonKey(d)])) >>

----------------------------------------------------------------------------
(* get_bookings *)

GetBookingsStart(w) ==
    /\ Receive(w)
    /\ \E missing \in BOOLEAN, date \in Dates \cup {BadDate} :
        IF missing THEN Finish(w, Reply("get_bookings", 400, "missing_date"))
        ELSE IF date = BadDate THEN Finish(w, Reply("get_bookings", 400, "bad_date"))
        ELSE IF SlotsOfDate(time_slots, date) # <<>>
        THEN Finish(w, [Reply("get_bookings", 200, "listed")
                           EXCEPT !.slots = SlotsOfDate(time_slots, date),
                                  !.bookings = BookingsOfDate(bookings, date)])
        ELSE /\ pc' = [pc EXCEPT ![w] = "gb_create"]
             /\ ctx' = [ctx EXCEPT ![w] = [BlankCtx EXCEPT !.date = date]]
             /\ resp' = BlankResp
    /\ UNCHANGED <<time_slots, bookings, payments, cal>>

\* Lines 390-429: no slot was found for the date: the two default slots are
\* added and committed, then the bookings are read and the answer built.
GetBookingsCreate(w) ==
    /\ UNCHANGED served
    /\ pc[w] = "gb_create"
    /\ LET d == ctx[w].date
       IN  /\ ~DefaultSlotsBlocked(w, d)
           /\ IF DefaultSlotsAllowed(time_slots, d)
              THEN /\ time_slots' = WithDefaultSlots(time_slots, d)
                   /\ pc' = [pc EXCEPT ![w] = "gb_reply"]
                   /\ ctx' = ctx /\ resp' = BlankResp
              ELSE /\ time_slots' = time_slots
                   /\ Finish(w, Reply("get_bookings", 500, "failed"))
    /\ UNCHANGED <<bookings, payments, cal>>

\* Lines 411-429: after the commit the bookings of the date are read and the
\* answer is built from the two slots just created.
GetBookingsReply(w) ==
    /\ UNCHANGED served
    /\ pc[w] = "gb_reply"
    /\ LET d == ctx[w].date
       IN  Finish(w, [Reply("get_bookings", 200, "created")
                         EXCEPT !.slots = CreatedSlotViews(time_slots, d),
                                !.bookings = BookingsOfDate(bookings, d)])
    /\ UNCHANGED <<time_slots, bookings, payments, cal>>

get_bookings(w) == GetBookingsStart(w) \/ GetBookingsCreate(w) \/ GetBookingsReply(w)

----------------------------------------------------------------------------
(* get_calendar_data *)

\* The classification with the threshold itself counted as available.
DayStatusBelowThreshold(total_available, total_capacity) ==
    IF total_capacity = 0 THEN "unavailable"
    ELSE IF total_available = 0 THEN "full"
    ELSE IF total_available < LimitedThreshold THEN "limited"
    ELSE "available"

\* Lines 787-794.
DayStatus(total_available, total_capacity) ==
    IF total_capacity = 0 THEN "unavailable"
    ELSE IF total_available = 0 THEN "full"
    ELSE IF total_available <= LimitedThreshold THEN "limited"
    ELSE "available"

RECURSIVE SumAvailable(_)
SumAvailable(views) ==
    IF views = <<>> THEN 0 ELSE Head(views).available + SumAvailable(Tail(views))

RECURSIVE SumCapacity(_)
SumCapacity(views) ==
    IF views = <<>> THEN 0 ELSE Head(views).capacity + SumCapacity(Tail(views))

\* Lines 779-784: a slot as the calendar lists it.
CalendarSlot(v) ==
    [time |-> v.time, available |-> v.available, capacity |-> v.capacity,
     booked |-> v.booked]

\* Lines 768-808: the entry of a day from the slots found or created for it.
CalendarEntry(views) ==
    IF views # <<>>
    THEN [status |-> DayStatus(SumAvailable(views), SumCapacity(views)),
          slots |-> [i \in 1..Len(views) |-> CalendarSlot(views[i])],
          total_available |-> SumAvailable(views),
          total_capacity |-> SumCapacity(views)]
    ELSE [status |-> "unavailable", slots |-> <<>>,
          total_available |-> 0, total_capacity |-> 0]

\* The rows loaded by line 728, read again after a commit or rollback of the
\* session expired them.
Refreshed(snapshot, t) ==
    [k \in SlotKeys |-> SubSeq(t[k], 1, Len(snapshot[k]))]

\* The loaded rows the loop still reads after day d: those of later days.
StillRead(snapshot, d) ==
    [k \in SlotKeys |-> IF k[1] > d THEN snapshot[k] ELSE <<>>]

\* Lines 711-736: the parameters are converted and the month's slots loaded.
GetCalendarStart(w) ==
    /\ Receive(w)
    /\ \E valid_month \in BOOLEAN :
        IF ~valid_month
        THEN /\ Finish(w, Reply("get_calendar_data", 400, "bad_month"))
             /\ UNCHANGED cal
        ELSE /\ pc' = [pc EXCEPT ![w] = "cal_loop"]
             /\ cal' = [cal EXCEPT ![w] =
                    [current_date |-> FirstDay, slots |-> time_slots,
                     expired |-> FALSE, data |-> <<>>]]
             /\ ctx' = ctx /\ resp' = BlankResp
    /\ UNCHANGED <<time_slots, bookings, payments>>

\* Default slots for every day without slots, past days included.
NeedsDefaultSlotsOnAnyDay(views, d) == views = <<>>

\* Line 743.
NeedsDefaultSlots(views, d) == views = <<>> /\ d >= Today

\* The loop goes on to the day after d, or returns the calendar after the
\* last day (lines 810-812).
CalendarAdvance(w, d, loaded, expired, data) ==
    IF d = LastDay
    THEN /\ Finish(w, [Reply("get_calendar_data", 200, "calendar")
                          EXCEPT !.calendar = data])
         /\ cal' = [cal EXCEPT ![w] = BlankCal]
    ELSE /\ cal' = [cal EXCEPT ![w] =
                [current_date |-> d + 1, slots |-> StillRead(loaded, d),
                 expired |-> expired, data |-> data]]
         /\ pc' = [pc EXCEPT ![w] = "cal_loop"]
         /\ ctx' = ctx /\ resp' = BlankResp

\* Lines 738-812: one iteration of the loop over the days: the slots of the
\* day are taken from the loaded rows; a day without slots that is not past
\* gets the two default slots committed (the entry is then built by the next
\* step), and a failed commit is rolled back and leaves the day without slots.
GetCalendarDay(w) ==
    /\ UNCHANGED served
    /\ pc[w] = "cal_loop"
    /\ LET c == cal[w]
           d == c.current_date
           loaded == IF c.expired THEN Refreshed(c.slots, time_slots) ELSE c.slots
           existing == SlotsOfDate(loaded, d)
           create == NeedsDefaultSlots(existing, d)
           created == create /\ DefaultSlotsAllowed(time_slots, d)
       IN  /\ create => ~DefaultSlotsBlocked(w, d)
           /\ IF created
              THEN /\ time_slots' = WithDefaultSlots(time_slots, d)
                   /\ cal' = [cal EXCEPT ![w] = [c EXCEPT !.slots = loaded, !.expired = TRUE]]
                   /\ pc' = [pc EXCEPT ![w] = "cal_created"]
                   /\ ctx' = ctx /\ resp' = BlankResp
              ELSE /\ time_slots' = time_slots
                   /\ CalendarAdvance(w, d, loaded, c.expired \/ create,
                                      Append(c.data, CalendarEntry(existing)))
    /\ UNCHANGED <<bookings, payments>>

\* Lines 762-801: the entry of a day whose default slots were just committed.
GetCalendarCreated(w) ==
    /\ UNCHANGED served
    /\ pc[w] = "cal_created"
    /\ LET c == cal[w]
           d == c.current_date
       IN  CalendarAdvance(w, d, c.slots, TRUE,
                           Append(c.data, CalendarEntry(CreatedSlotViews(time_slots, d))))
    /\ UNCHANGED <<time_slots, bookings, payments>>

get_calendar_data(w) ==
    GetCalendarStart(w) \/ GetCalendarDay(w) \/ GetCalendarCreated(w)

----------------------------------------------------------------------------
Next ==
    \E w \in Workers :
        \/ create_booking(w)
        \/ initialize_payment(w)
        \/ get_bookings(w)
        \/ get_calendar_data(w)

Spec == Init /\ [][Next]_vars

----------------------------------------------------------------------------
(* The booking path through the frontend and the gateway *)

\* src/frontend/app.py lines 61-76 and src/gateway/app.py lines 106-119: the
\* body is refused by the frontend or, failing that, by the gateway when a
\* required field is missing; otherwise the gateway forwards it to the
\* backend's create_booking (src/gateway/app.py lines 121-129).
FrontendCreateBooking(w) ==
    /\ Receive(w)
    /\ \E rq \in BookingRequests :
        IF rq.missing
        THEN Finish(w, Reply("frontend_create_booking", 400, "missing_fields"))
        ELSE CreateBookingBegin(w, rq, "frontend")
    /\ UNCHANGED <<time_slots, bookings, payments, cal>>

\* src/frontend/app.py lines 136-162: what becomes of the email request: the
\* endpoint answers ok, answers with an error status, or the request raises.
EmailAnswers == {"ok", "error", "exception"}

\* An answer that turns into an error when the email was not sent.
FrontendReplyFailingOnEmail(c, email_answer) ==
    IF email_answer = "ok"
    THEN [Reply("frontend_create_booking", 200, "created")
             EXCEPT !.booking_id = c.booking_id, !.amount = c.total_amount,
                    !.email = "sent", !.email_answer = email_answer]
    ELSE [Reply("frontend_create_booking", 500, "failed")
             EXCEPT !.booking_id = c.booking_id,
                    !.email = "failed", !.email_answer = email_answer]

\* src/frontend/app.py lines 151-168: the gateway's answer (booking_id and
\* amount) with email_status added, returned with status 200.
FrontendReply(c, email_answer) ==
    [Reply("frontend_create_booking", 200, "created")
        EXCEPT !.booking_id = c.booking_id, !.amount = c.total_amount,
               !.email = IF email_answer = "ok" THEN "sent" ELSE "failed",
               !.email_answer = email_answer]

\* src/frontend/app.py lines 117-168: the frontend posts the confirmation to
\* the gateway's send_email (src/gateway/app.py lines 256-369), which sends
\* it over SMTP; email_answer is what becomes of that request. The frontend
\* answers 200 in each case.
FrontendSendEmail(w) ==
    /\ UNCHANGED served
    /\ pc[w] = "fe_email"
    /\ \E email_answer \in EmailAnswers :
        Finish(w, FrontendReply(ctx[w], email_answer))
    /\ UNCHANGED <<time_slots, bookings, payments, cal>>

frontend_create_booking(w) == FrontendCreateBooking(w) \/ FrontendSendEmail(w)

\* Backend, gateway and frontend together.
NextSystem ==
    \E w \in Workers :
        \/ create_booking(w)
        \/ initialize_payment(w)
        \/ get_bookings(w)
        \/ get_calendar_data(w)
        \/ frontend_create_booking(w)

SpecSystem == Init /\ [][NextSystem]_vars

----------------------------------------------------------------------------
(* Pricing: get_pricing, and create_booking over the priced nationalities *)

\* The dates asked of get_pricing: the day before the interval of the seeded
\* records, its first day, its last day and the day after.
PricingDates ==
    {Today - 1, Today, Today + PricingValidDays, Today + PricingValidDays + 1}

PricedNationalities == {"Local", "Foreign", "Other"}

\* Lines 582-609: the parameters are checked, the date parsed and the first
\* Pricing record of the nationality and ticket type whose interval holds
\* the date is answered, or 404 when there is none.
GetPricing(w) ==
    /\ Receive(w)
    /\ \E missing \in BOOLEAN, nationality \in PricedNationalities,
          ticket_type \in TicketTypes, date \in PricingDates \cup {BadDate} :
        IF missing THEN Finish(w, Reply("get_pricing", 400, "missing_fields"))
        ELSE IF date = BadDate THEN Finish(w, Reply("get_pricing", 400, "bad_date"))
        ELSE LET i == PricingLookup(nationality, ticket_type, date)
                 asked == [BlankCtx EXCEPT !.nationality = nationality,
                                           !.ticket_type = ticket_type, !.date = date]
             IN  /\ ctx' = [ctx EXCEPT ![w] = asked]
                 /\ pc' = [pc EXCEPT ![w] = "priced"]
                 /\ resp' = IF i = 0
                            THEN Reply("get_pricing", 404, "no_pricing")
                            ELSE [Reply("get_pricing", 200, "pricing")
                                     EXCEPT !.prices = <<PricingTable[i].adult_price,
                                                         PricingTable[i].child_price>>]
    /\ UNCHANGED <<time_slots, bookings, payments, cal>>

\* The thread that answered get_pricing is free again.
GetPricingDone(w) ==
    /\ pc[w] = "priced"
    /\ pc' = [pc EXCEPT ![w] = "idle"]
    /\ ctx' = [ctx EXCEPT ![w] = BlankCtx]
    /\ resp' = BlankResp
    /\ UNCHANGED <<time_slots, bookings, payments, cal, served>>

get_pricing(w) == GetPricing(w) \/ GetPricingDone(w)

\* Bodies of create_booking over both priced nationalities.
PricedRequests ==
    [missing : {FALSE}, date : Dates, nationality : PricedNationalities,
     ticket_type : {"Regular"}, slot_time : {"10:00 AM"},
     visitors : {<<2, 1>>, <<1, 0>>, <<51, 0>>}]

CreateBookingPriced(w) ==
    /\ Receive(w)
    /\ \E rq \in PricedRequests : CreateBookingBegin(w, rq, "backend")
    /\ UNCHANGED <<time_slots, bookings, payments, cal>>

NextPriced ==
    \E w \in Workers :
        \/ get_pricing(w)
        \/ CreateBookingPriced(w)
        \/ CreateBookingInsert(w)
        \/ CreateBookingCheck(w)
        \/ CreateBookingReport(w)

SpecPriced == Init /\ [][NextPriced]_vars

----------------------------------------------------------------------------
(* check_availability *)

\* Lines 366-370: a slot as check_availability lists it.
AvailabilitySlot(v) ==
    [time |-> v.time, available |-> v.available, ticket_type |-> v.ticket_type]

\* Lines 361-372: the date is parsed, the TimeSlot rows of the date are
\* queried and listed; nothing is written. The answer stays in resp, and the
\* date asked in ctx, until the thread is free again.
CheckAvailability(w) ==
    /\ Receive(w)
    /\ \E date \in Dates \cup {BadDate} :
        IF date = BadDate
        THEN Finish(w, Reply("check_availability", 400, "bad_date"))
        ELSE LET slots == SlotsOfDate(time_slots, date)
             IN  /\ ctx' = [ctx EXCEPT ![w] = [BlankCtx EXCEPT !.date = date]]
                 /\ pc' = [pc EXCEPT ![w] = "availability"]
                 /\ resp' = [Reply("check_availability", 200, "listed")
                                EXCEPT !.slots = [i \in 1..Len(slots) |->
                                                     AvailabilitySlot(slots[i])]]
    /\ UNCHANGED <<time_slots, bookings, payments, cal>>

\* The thread that answered check_availability is free again.
CheckAvailabilityDone(w) ==
    /\ pc[w] = "availability"
    /\ pc' = [pc EXCEPT ![w] = "idle"]
    /\ ctx' = [ctx EXCEPT ![w] = BlankCtx]
    /\ resp' = BlankResp
    /\ UNCHANGED <<time_slots, bookings, payments, cal, served>>

check_availability(w) == CheckAvailability(w) \/ CheckAvailabilityDone(w)

\* The system as seen by a client that asks for availability and books.
NextAvailability ==
    \E w \in Workers :
        \/ check_availability(w)
        \/ create_booking(w)

SpecAvailability == Init /\ [][NextAvailability]_vars

----------------------------------------------------------------------------
(* The calendar of days that are nearly or fully booked *)

\* Bodies of create_booking that leave 6, 5 or 0 places of a new slot.
CalendarRequests ==
    [missing : {FALSE}, date : Dates, nationality : {"Local"},
     ticket_type : {"Regular"}, slot_time : {"10:00 AM"},
     visitors : {<<DefaultCapacity - LimitedThreshold - 1, 0>>,
                 <<DefaultCapacity - LimitedThreshold, 0>>,
                 <<DefaultCapacity, 0>>}]

CreateBookingForCalendar(w) ==
    /\ Receive(w)
    /\ \E rq \in CalendarRequests : CreateBookingBegin(w, rq, "backend")
    /\ UNCHANGED <<time_slots, bookings, payments, cal>>

NextCalendar ==
    \E w \in Workers :
        \/ CreateBookingForCalendar(w)
        \/ CreateBookingInsert(w)
        \/ CreateBookingCheck(w)
        \/ CreateBookingReport(w)
        \/ get_calendar_data(w)

SpecCalendar == Init /\ [][NextCalendar]_vars

----------------------------------------------------------------------------
(* get_booking and get_payment_status *)

\* str.capitalize() of a booking status.
Capitalize(status) ==
    CASE status = "pending" -> "Pending"
      [] status = "confirmed" -> "Confirmed"
      [] OTHER -> status

\* Lines 435-462: the booking is looked up by its id and answered with its
\* capitalized status and its payment_status, or 404 when there is none.
GetBooking(w) ==
    /\ Receive(w)
    /\ \E booking_id \in BookingIds :
        IF booking_id \notin 1..Len(bookings)
        THEN Finish(w, Reply("get_booking", 404, "not_found"))
        ELSE Finish(w, [Reply("get_booking", 200, "booking")
                           EXCEPT !.booking_id = booking_id,
                                  !.amount = bookings[booking_id].total_amount,
                                  !.status = <<Capitalize(bookings[booking_id].status),
                                               bookings[booking_id].payment_status>>])
    /\ UNCHANGED <<time_slots, bookings, payments, cal>>

\* The payment ids tried: those of the payments made, and one of no payment.
PaymentIds == 1..(Len(payments) + 1)

\* Lines 698-706: the Payment is looked up by its id and answered, or 404
\* when there is none.
GetPaymentStatus(w) ==
    /\ Receive(w)
    /\ \E payment_id \in PaymentIds :
        IF payment_id \notin 1..Len(payments)
        THEN Finish(w, Reply("get_payment_status", 404, "not_found"))
        ELSE Finish(w, [Reply("get_payment_status", 200, "payment")
                           EXCEPT !.booking_id = payments[payment_id].booking_id,
                                  !.amount = payments[payment_id].amount,
                                  !.status = <<payments[payment_id].status>>])
    /\ UNCHANGED <<time_slots, bookings, payments, cal>>

\* Bodies of create_booking for one or 49 visitors on the morning slot.
ReadRequests ==
    [missing : {FALSE}, date : Dates, nationality : {"Local"},
     ticket_type : {"Regular"}, slot_time : {"10:00 AM"},
     visitors : {<<0, 1>>, <<48, 1>>}]

CreateBookingForReads(w) ==
    /\ Receive(w)
    /\ \E rq \in ReadRequests : CreateBookingBegin(w, rq, "backend")
    /\ UNCHANGED <<time_slots, bookings, payments, cal>>

\* The backend serving bookings, payments and all its read operations.
NextReads ==
    \E w \in Workers :
        \/ CreateBookingForReads(w)
        \/ CreateBookingInsert(w)
        \/ CreateBookingCheck(w)
        \/ CreateBookingReport(w)
        \/ initialize_payment(w)
        \/ check_availability(w)
        \/ get_bookings(w)
        \/ GetBooking(w)
        \/ get_pricing(w)
        \/ GetPaymentStatus(w)
        \/ get_calendar_data(w)

SpecReads == Init /\ [][NextReads]_vars

----------------------------------------------------------------------------
(* The database file: one write transaction at a time *)

\* Line 82 configures an SQLite database. SQLite has no row locks: a
\* transaction that has written (a flushed INSERT or UPDATE) holds the write
\* lock of the whole database until it commits or rolls back.
HoldsWriteLock(w) ==
    \/ pc[w] = "cb_check" /\ ctx[w].created
    \/ pc[w] = "pay_commit"

\* The next statement of w writes: the flush of the new slot (line 203), the
\* commit of a reservation (line 231), the flush of the Payment and of the
\* booking's UPDATE (lines 649-661).
WritesNext(w) ==
    \/ pc[w] = "cb_insert"
    \/ /\ pc[w] = "cb_check"
       /\ ~CapacityExceeded(ctx[w].booked_count, ctx[w].adults + ctx[w].children,
                            ctx[w].capacity)
    \/ pc[w] = "pay_flush"

\* The write of w waits for the write transaction of another session.
WaitsForWriteLock(w) ==
    WritesNext(w) /\ \E o \in Workers \ {w} : HoldsWriteLock(o)

\* create_booking and initialize_payment on the database of line 82.
NextOneWriter ==
    \E w \in Workers :
        \/ ~WaitsForWriteLock(w) /\ create_booking(w)
        \/ ~WaitsForWriteLock(w) /\ initialize_payment(w)

SpecOneWriter == Init /\ [][NextOneWriter]_vars

----------------------------------------------------------------------------
(* get_calendar_data: the days of the month asked for *)

\* The years that datetime represents.
MinYear == 1
MaxYear == 9999

IsLeap(y) == (y % 4 = 0 /\ y % 100 # 0) \/ y % 400 = 0

DaysInMonth(y, m) ==
    CASE m \in {1, 3, 5, 7, 8, 10, 12} -> 31
      [] m \in {4, 6, 9, 11} -> 30
      [] OTHER -> IF IsLeap(y) THEN 29 ELSE 28

\* datetime(y, m, d) succeeds; otherwise it raises ValueError.
DateExists(y, m, d) ==
    /\ y \in MinYear..MaxYear
    /\ m \in 1..12
    /\ d \in 1..DaysInMonth(y, m)

DaysBeforeYear(y) ==
    ((y - 1) * 365) + ((y - 1) \div 4) - ((y - 1) \div 100) + ((y - 1) \div 400)

RECURSIVE DaysBeforeMonth(_, _)
DaysBeforeMonth(y, m) ==
    IF m = 1 THEN 0 ELSE DaysInMonth(y, m - 1) + DaysBeforeMonth(y, m - 1)

\* The date as a number of days, so that adding timedelta(days=1) adds 1.
Ordinal(y, m, d) == DaysBeforeYear(y) + DaysBeforeMonth(y, m) + d

\* Lines 719-723: <<first_day, last_day>>, or <<>> when one of the datetime
\* calls raises.
MonthRange(year, month) ==
    IF ~DateExists(year, month, 1) THEN <<>>
    ELSE IF month = 12
    THEN IF DateExists(year + 1, 1, 1)
         THEN <<Ordinal(year, 12, 1), Ordinal(year + 1, 1, 1) - 1>>
         ELSE <<>>
    ELSE <<Ordinal(year, month, 1), Ordinal(year, month + 1, 1) - 1>>

\* The months asked for: every month number from 0 to 13 of a common year
\* and of a leap year, both before the current date and without any slot,
\* and the last month datetime represents.
MonthInputs == ({2023, 2024} \X (0..13)) \cup {<<9999, 12>>}

\* Lines 711-817 for these months: the range of days is computed; a raised
\* error is answered 400 (lines 814-817); the days, all past and without
\* slots, each get the entry of lines 802-808, keyed by their date.
GetCalendarOfMonth(w) ==
    /\ Receive(w)
    /\ \E ym \in MonthInputs :
        LET range == MonthRange(ym[1], ym[2])
        IN  /\ pc' = [pc EXCEPT ![w] = "cal_month"]
            /\ ctx' = [ctx EXCEPT ![w] = [BlankCtx EXCEPT !.year = ym[1], !.month = ym[2]]]
            /\ resp' = IF range = <<>>
                       THEN Reply("get_calendar_data", 400, "bad_month")
                       ELSE [Reply("get_calendar_data", 200, "calendar")
                                EXCEPT !.calendar = [d \in range[1]..range[2] |->
                                                        CalendarEntry(<<>>)]]
    /\ UNCHANGED <<time_slots, bookings, payments, cal>>

\* The thread that answered the calendar is free again.
GetCalendarOfMonthDone(w) ==
    /\ pc[w] = "cal_month"
    /\ pc' = [pc EXCEPT ![w] = "idle"]
    /\ ctx' = [ctx EXCEPT ![w] = BlankCtx]
    /\ resp' = BlankResp
    /\ UNCHANGED <<time_slots, bookings, payments, cal, served>>

NextMonth ==
    \E w \in Workers :
        \/ GetCalendarOfMonth(w)
        \/ GetCalendarOfMonthDone(w)

SpecMonth == Init /\ [][NextMonth]_vars

----------------------------------------------------------------------------
(* The gateway's create_booking *)

RequiredFields == {"date", "nationality", "adults", "ticketType", "timeSlot", "email"}

\* What a body holds for a field: a usable value, nothing (the key is
\* absent), null, or the empty string.
FieldStates == {"value", "absent", "null", ""}

\* The bodies tried: the well-formed one, the empty body (no key at all) and
\* each body with one required field absent, null or empty.
GatewayBodies ==
    {b \in [RequiredFields -> FieldStates] :
        \/ \A f \in RequiredFields : b[f] = "absent"
        \/ \E f \in RequiredFields : \A g \in RequiredFields \ {f} : b[g] = "value"}

\* A gateway check that only looks for absent keys.
GatewayMissingFieldsAbsentOnly(body) ==
    {f \in RequiredFields : body[f] = "absent"}

\* src/gateway/app.py lines 112-113.
GatewayMissingFields(body) ==
    {f \in RequiredFields : body[f] = "absent" \/ body[f] = "null" \/ body[f] = ""}

\* src/backend/app.py lines 116-123: the same test in the backend.
MissingFields(body) ==
    {f \in RequiredFields : body[f] = "absent" \/ body[f] = "null" \/ body[f] = ""}

\* What the values of a forwarded body say: one or 49 visitors for the
\* morning slot of a date.
ForwardedRequests ==
    [missing : {FALSE}, date : Dates, nationality : {"Local"},
     ticket_type : {"Regular"}, slot_time : {"10:00 AM"},
     visitors : {<<0, 1>>, <<48, 1>>}]

\* src/gateway/app.py lines 100-129: an empty body and a body with a missing
\* required field are answered 400 by the gateway itself; any other body is
\* posted to the backend's create_booking, which tests the fields again.
GatewayCreateBooking(w) ==
    /\ Receive(w)
    /\ \E body \in GatewayBodies, rq \in ForwardedRequests :
        IF \A f \in RequiredFields : body[f] = "absent"
        THEN Finish(w, Reply("gateway_create_booking", 400, "gateway_no_data"))
        ELSE IF GatewayMissingFields(body) # {}
        THEN Finish(w, Reply("gateway_create_booking", 400, "gateway_missing_fields"))
        ELSE CreateBookingBegin(w, [rq EXCEPT !.missing = (MissingFields(body) # {})],
                                "gateway")
    /\ UNCHANGED <<time_slots, bookings, payments, cal>>

NextGateway ==
    \E w \in Workers :
        \/ GatewayCreateBooking(w)
        \/ CreateBookingInsert(w)
        \/ CreateBookingCheck(w)
        \/ CreateBookingReport(w)

SpecGateway == Init /\ [][NextGateway]_vars

\* The system while no payment is requested.
NextBookings ==
    \E w \in Workers :
        \/ create_booking(w)
        \/ get_bookings(w)
        \/ get_calendar_data(w)

SpecBookings == Init /\ [][NextBookings]_vars

----------------------------------------------------------------------------
(* Properties of the reservation engine *)

BookingKey(b) == <<b.date, b.slot_time, b.ticket_type>>

\* The visitors of the bookings bks made for slot key k.
RECURSIVE SumVisitors(_, _)
SumVisitors(bks, k) ==
    IF bks = <<>> THEN 0
    ELSE (IF BookingKey(Head(bks)) = k THEN Head(bks).adults + Head(bks).children ELSE 0)
         + SumVisitors(Tail(bks), k)

\* The indexes of the Payment rows recorded for booking b.
PaymentsOf(b) == {i \in 1..Len(payments) : payments[i].booking_id = b}

CreateBookingPcs == {"cb_insert", "cb_check", "cb_report"}

\* The step is taken by the create_booking handler of some thread.
CreateBookingStep ==
    \/ \E w \in Workers : pc[w] \in CreateBookingPcs /\ pc'[w] # pc[w]
    \/ \E w \in Workers : pc[w] = "idle" /\ pc'[w] \in CreateBookingPcs
    \/ served' = served + 1 /\ resp'.op = "create_booking"

\* The step answers an initialize_payment request with the given kind.
PaymentAnswered(kinds) == resp'.op = "initialize_payment" /\ resp'.kind \in kinds

DatastoreUnchanged ==
    /\ time_slots' = time_slots
    /\ bookings' = bookings
    /\ payments' = payments

\* C1: in every reachable state every TimeSlot row satisfies
\* 0 <= booked_count <= capacity, whatever creations of bookings and
\* initializations of payments are interleaved.
C1_BookedCountWithinCapacity ==
    \A k \in SlotKeys : \A i \in 1..Len(time_slots[k]) :
        /\ 0 <= time_slots[k][i].booked_count
        /\ time_slots[k][i].booked_count <= time_slots[k][i].capacity

\* C1: a slot filled exactly to its capacity by a booking and a payment.
C1_SlotFilledToCapacity ==
    /\ payments # <<>>
    /\ \E k \in SlotKeys :
        /\ time_slots[k] # <<>>
        /\ Head(time_slots[k]).booked_count = Head(time_slots[k]).capacity

C3_AtMostOnePaymentPerBooking ==
    \A b \in 1..Len(bookings) : Cardinality(PaymentsOf(b)) <= 1

\* C4: a step of create_booking either applies the reservation and the
\* booking together (the slot's booked_count grows by the visitors, no other
\* slot changes, exactly one pending booking for that slot is appended, and
\* the answer is the success), or changes neither table and does not answer
\* with the success.
C4_ReservationAndBookingTogether ==
    [][CreateBookingStep =>
        \/ \E w \in Workers :
            LET c == ctx[w]
                k == CtxKey(c)
                n == Len(bookings) + 1
            IN  /\ pc[w] = "cb_check"
                /\ pc'[w] = "idle"
                /\ resp'.kind = "created"
                /\ resp'.booking_id = n
                /\ SumBooked(time_slots'[k]) = SumBooked(time_slots[k]) + c.adults + c.children
                /\ \A j \in SlotKeys \ {k} : time_slots'[j] = time_slots[j]
                /\ Len(bookings') = n
                /\ SubSeq(bookings', 1, n - 1) = bookings
                /\ BookingKey(bookings'[n]) = k
                /\ bookings'[n].adults = c.adults
                /\ bookings'[n].children = c.children
                /\ bookings'[n].status = "pending"
                /\ bookings'[n].payment_status = "pending"
        \/ /\ time_slots' = time_slots
           /\ bookings' = bookings
           /\ resp'.kind # "created"
      ]_vars

\* C4: a create_booking request has been answered with the success.
C4_BookingCreated ==
    /\ resp.op = "create_booking"
    /\ resp.kind = "created"
    /\ resp.booking_id = Len(bookings)
    /\ SumBooked(time_slots[BookingKey(bookings[resp.booking_id])]) > 0

\* C5: a create_booking request whose visitors do not fit is rolled back
\* entirely: the step that finds booked_count + visitors > capacity and the
\* step that answers leave every TimeSlot row and the bookings as they were
\* (no row inserted by the request stays behind) and the answer is the
\* capacity error.
C5_CapacityRejectionRolledBack ==
    [][\A w \in Workers :
        /\ ( /\ pc[w] = "cb_check"
             /\ pc'[w] # "cb_check"
             /\ ctx[w].booked_count + ctx[w].adults + ctx[w].children > ctx[w].capacity )
           => /\ time_slots' = time_slots
              /\ bookings' = bookings
              /\ \/ pc'[w] = "cb_report"
                 \/ resp'.op = "create_booking" /\ resp'.kind = "capacity" /\ resp'.code = 400
        /\ (pc[w] = "cb_report" /\ pc'[w] # "cb_report")
           => /\ time_slots' = time_slots
              /\ bookings' = bookings
              /\ resp'.op = "create_booking" /\ resp'.kind = "capacity" /\ resp'.code = 400
      ]_vars

\* C5: a request for a slot that had no row was rejected for lack of
\* capacity and no row of any slot exists.
C5_RejectedOnNewSlot ==
    /\ resp.op = "create_booking"
    /\ resp.kind = "capacity"
    /\ resp.at_check = DefaultCapacity
    /\ \A k \in SlotKeys : time_slots[k] = <<>>

\* C6: every capacity rejection of create_booking carries the remaining
\* capacity (capacity - booked_count) of the slot as it stood at the capacity
\* check, also when other requests commit on the slot before the answer.
C6_ReportsRemainingAtCheck ==
    (resp.op = "create_booking" /\ resp.kind = "capacity")
        => resp.available = resp.at_check

C8_FailedPaymentRolledBack ==
    [][PaymentAnswered({"capacity", "slot_not_found"}) =>
        LET b == resp'.booking_id
        IN  /\ DatastoreUnchanged
            /\ resp'.code \in {400, 404}
            /\ PaymentsOf(b) = {}
                 => /\ bookings'[b].status = "pending"
                    /\ bookings'[b].payment_status = "pending"
      ]_vars

\* C8: a payment was refused because the slot is full; its booking is still
\* pending and no Payment exists.
C8_PaymentRefusedSlotFull ==
    /\ resp.op = "initialize_payment"
    /\ resp.kind = "capacity"
    /\ payments = <<>>
    /\ bookings[resp.booking_id].status = "pending"
    /\ bookings[resp.booking_id].payment_status = "pending"

\* C9: initialize_payment for a booking_id that does not exist is answered
\* NotFound (404) and for a booking whose payment_status is completed
\* AlreadyPaid (400); such a request never enters the transaction, and the
\* answering step changes no slot, booking or payment.
C9_PrecheckRejectsWithoutChange ==
    [][ /\ PaymentAnswered({"not_found"})
            => /\ resp'.code = 404
               /\ resp'.booking_id \notin 1..Len(bookings)
               /\ DatastoreUnchanged
        /\ PaymentAnswered({"already_paid"})
            => /\ resp'.code = 400
               /\ resp'.booking_id \in 1..Len(bookings)
               /\ bookings[resp'.booking_id].payment_status = "completed"
               /\ DatastoreUnchanged
        /\ (served' = served + 1 /\ resp'.op = "initialize_payment" /\ resp'.booking_id # 0)
            => resp'.kind = IF resp'.booking_id \in 1..Len(bookings)
                            THEN "already_paid" ELSE "not_found"
        /\ \A w \in Workers : (pc[w] = "idle" /\ pc'[w] = "pay_flush")
            => /\ ctx'[w].booking_id \in 1..Len(bookings)
               /\ bookings[ctx'[w].booking_id].payment_status # "completed"
      ]_vars

\* C9: a payment request for a booking already paid was answered AlreadyPaid.
C9_AlreadyPaidAnswered ==
    /\ resp.op = "initialize_payment"
    /\ resp.kind = "already_paid"
    /\ bookings[resp.booking_id].payment_status = "completed"

\* C10: the only change ever made to the (status, payment_status) of a
\* booking is the step from (pending, pending) to (confirmed, completed), and
\* a request that confirms a booking finds it (pending, pending): no request
\* to confirm a booking already (confirmed, completed) succeeds.
C10_SingleTransition ==
    [][ /\ \A b \in 1..Len(bookings) :
            (<<bookings'[b].status, bookings'[b].payment_status>>
                # <<bookings[b].status, bookings[b].payment_status>>)
            => /\ <<bookings[b].status, bookings[b].payment_status>> = <<"pending", "pending">>
               /\ <<bookings'[b].status, bookings'[b].payment_status>> = <<"confirmed", "completed">>
        /\ PaymentAnswered({"paid"})
            => <<bookings[resp'.booking_id].status,
                 bookings[resp'.booking_id].payment_status>> = <<"pending", "pending">>
      ]_vars

\* C11: when the confirmation notifier fails after the payment committed,
\* nothing is undone: the step still records the completed Payment, leaves
\* the booking (confirmed, completed) and the slot increment written, and
\* initialize_payment answers with the success.
C11_NotifierFailureChangesNothing ==
    [][(resp'.op = "initialize_payment" /\ resp'.email = "failed") =>
        \E w \in Workers :
            LET c == ctx[w]
                b == c.booking_id
                k == CtxKey(c)
                n == Len(payments) + 1
            IN  /\ pc[w] = "pay_commit"
                /\ pc'[w] = "idle"
                /\ resp'.booking_id = b
                /\ resp'.code = 200
                /\ resp'.kind = "paid"
                /\ Len(payments') = n
                /\ payments'[n].booking_id = b
                /\ payments'[n].status = "completed"
                /\ bookings'[b].status = "confirmed"
                /\ bookings'[b].payment_status = "completed"
                /\ Head(time_slots'[k]).booked_count = c.booked_count + 1
      ]_vars

\* C11: a payment was answered with the success although the notifier failed,
\* and its Payment, confirmation and increment are in the datastore.
C11_PaidWithoutEmail ==
    /\ resp.op = "initialize_payment"
    /\ resp.kind = "paid"
    /\ resp.email = "failed"
    /\ PaymentsOf(resp.booking_id) # {}
    /\ bookings[resp.booking_id].status = "confirmed"
    /\ SumBooked(time_slots[BookingKey(bookings[resp.booking_id])]) >= 2

\* C12: a booking confirmation is sent only for a booking whose payment has
\* been committed as completed: whenever a step of the backend, the gateway
\* or the frontend has sent one, the booking it names is not pending.
C12_ConfirmationOnlyAfterPayment ==
    resp.email = "sent"
        => /\ resp.booking_id \in 1..Len(bookings)
           /\ bookings[resp.booking_id].payment_status = "completed"
           /\ PaymentsOf(resp.booking_id) # {}

\* C13: every booking has total_amount = adults * adult_price + children *
\* child_price, with the prices of a Pricing record whose nationality and
\* ticket type are the booking's and whose interval contains its date, and
\* the amount answered by create_booking is the stored total_amount.
C13_TotalAmountFromPricing ==
    /\ \A i \in 1..Len(bookings) :
        LET b == bookings[i]
        IN  \E j \in 1..Len(PricingTable) :
                /\ PricingTable[j].nationality = b.nationality
                /\ PricingTable[j].ticket_type = b.ticket_type
                /\ PricingTable[j].effective_from <= b.date
                /\ b.date <= PricingTable[j].effective_to
                /\ b.total_amount = b.adults * PricingTable[j].adult_price
                                    + b.children * PricingTable[j].child_price
    /\ (resp.op = "create_booking" /\ resp.kind = "created")
        => resp.amount = bookings[resp.booking_id].total_amount

\* C13: a booking for 2 adults and 1 child at the prices 30 and 15 was
\* created and answered with the amount 75.
C13_TwoAdultsOneChild ==
    /\ resp.op = "create_booking"
    /\ resp.kind = "created"
    /\ resp.amount = 75
    /\ bookings[resp.booking_id].adults = 2
    /\ bookings[resp.booking_id].children = 1
    /\ bookings[resp.booking_id].nationality = "Foreign"
    /\ bookings[resp.booking_id].total_amount = 75

C15_TwoDefaultSlotsCreated ==
    [][\A w \in Workers :
        /\ ( /\ pc[w] = "gb_create" /\ pc'[w] # "gb_create"
             /\ \A k \in SlotKeys : k[1] = ctx[w].date => time_slots[k] = <<>> ) =>
            LET d == ctx[w].date
            IN  /\ pc'[w] = "gb_reply"
                /\ time_slots'[<<d, "10:00 AM", "Regular">>]
                     = <<[capacity |-> 50, booked_count |-> 0]>>
                /\ time_slots'[<<d, "2:00 PM", "Regular">>]
                     = <<[capacity |-> 50, booked_count |-> 0]>>
                /\ \A k \in SlotKeys :
                     k \notin {<<d, "10:00 AM", "Regular">>, <<d, "2:00 PM", "Regular">>}
                        => time_slots'[k] = time_slots[k]
        /\ (pc[w] = "gb_reply" /\ pc'[w] # "gb_reply") =>
            /\ resp'.op = "get_bookings"
            /\ resp'.code = 200
            /\ Len(resp'.slots) = 2
            /\ resp'.slots[1].time = "10:00 AM" /\ resp'.slots[1].ticket_type = "Regular"
            /\ resp'.slots[2].time = "2:00 PM" /\ resp'.slots[2].ticket_type = "Regular"
            /\ resp'.slots[1].capacity = 50 /\ resp'.slots[2].capacity = 50
      ]_vars

\* C15: get_bookings answered the two default slots it created, each with 50
\* places available, and they are the slots of that date in the datastore.
C15_DefaultSlotsAnswered ==
    /\ resp.op = "get_bookings"
    /\ resp.kind = "created"
    /\ Len(resp.slots) = 2
    /\ resp.slots[1].available = 50
    /\ resp.slots[2].available = 50
    /\ \E d \in Dates :
        /\ time_slots[<<d, "10:00 AM", "Regular">>] = <<[capacity |-> 50, booked_count |-> 0]>>
        /\ time_slots[<<d, "2:00 PM", "Regular">>] = <<[capacity |-> 50, booked_count |-> 0]>>

\* The step is taken by get_bookings or get_calendar_data.
ReadingStep ==
    \/ \E w \in Workers :
        /\ pc[w] \in {"gb_create", "gb_reply", "cal_loop", "cal_created"}
        /\ (pc'[w] # pc[w] \/ cal'[w] # cal[w])
    \/ served' = served + 1 /\ resp'.op \in {"get_bookings", "get_calendar_data"}
    \/ \E w \in Workers : pc[w] = "idle" /\ pc'[w] \in {"gb_create", "cal_loop"}

C18_AvailabilityMaterializesDefaults ==
    [][\A w \in Workers :
          LET d == ctx'[w].date
          IN  (/\ pc[w] = "idle"
               /\ pc'[w] = "availability"
               /\ d >= Today
               /\ SlotsOfDate(time_slots, d) = <<>>)
              => /\ time_slots' = WithDefaultSlots(time_slots, d)
                 /\ Len(resp'.slots) = 2
                 /\ \A i \in 1..Len(resp'.slots) :
                       resp'.slots[i].available = DefaultCapacity]_vars

\* The places left, and the capacity, summed over the slots a calendar entry
\* lists.
RECURSIVE SumListedAvailable(_)
SumListedAvailable(slots) ==
    IF slots = <<>> THEN 0
    ELSE (Head(slots).capacity - Head(slots).booked) + SumListedAvailable(Tail(slots))

RECURSIVE SumListedCapacity(_)
SumListedCapacity(slots) ==
    IF slots = <<>> THEN 0 ELSE Head(slots).capacity + SumListedCapacity(Tail(slots))

CalendarAnswered == resp.op = "get_calendar_data" /\ resp.code = 200

\* C19: in every calendar that get_calendar_data answers, each day's
\* total_available is the sum of capacity - booked_count and its
\* total_capacity the sum of capacity over the slots listed for the day, and
\* its status follows from the two totals alone: unavailable when
\* total_capacity = 0, else full when total_available = 0, else limited when
\* 0 < total_available <= 5, else available.
C19_StatusFromTotals ==
    CalendarAnswered =>
        \A i \in 1..Len(resp.calendar) :
            LET e == resp.calendar[i]
            IN  /\ e.total_available = SumListedAvailable(e.slots)
                /\ e.total_capacity = SumListedCapacity(e.slots)
                /\ e.total_capacity = 0 => e.status = "unavailable"
                /\ (e.total_capacity # 0 /\ e.total_available = 0)
                      => e.status = "full"
                /\ (e.total_capacity # 0 /\ 0 < e.total_available
                                         /\ e.total_available <= 5)
                      => e.status = "limited"
                /\ (e.total_capacity # 0 /\ e.total_available > 5)
                      => e.status = "available"

\* C19: a calendar is answered in which one day has no slot and is
\* unavailable and another has exactly 5 places left and is limited.
C19_UnavailableAndLimitedDays ==
    /\ CalendarAnswered
    /\ \E i, j \in 1..Len(resp.calendar) :
          /\ resp.calendar[i].status = "unavailable"
          /\ resp.calendar[i].slots = <<>>
          /\ resp.calendar[j].status = "limited"
          /\ resp.calendar[j].total_available = LimitedThreshold

\* The entry that a step of get_calendar_data on thread w has just added to
\* the calendar it is building, or has answered with.
LastEntryAdded(w) ==
    LET data == IF pc'[w] = "idle" THEN resp'.calendar ELSE cal'[w].data
    IN  data[Len(data)]

UnavailableEntry ==
    [status |-> "unavailable", slots |-> <<>>,
     total_available |-> 0, total_capacity |-> 0]

\* C20: when get_calendar_data comes to a day that has no slots, then, if
\* the day is on or after the current date, the two default slots are
\* created first and the day is classified afterwards, from these two slots;
\* if the day is before the current date, no slot is created and the day is
\* reported unavailable with an empty slot list and both totals 0.
C20_DefaultSlotsBeforeClassification ==
    [][\A w \in Workers :
          LET d == cal[w].current_date
          IN  /\ (/\ pc[w] = "cal_loop"
                  /\ <<pc'[w], cal'[w]>> # <<pc[w], cal[w]>>
                  /\ SlotsOfDate(time_slots, d) = <<>>)
                 => IF d >= Today
                    THEN /\ time_slots' = WithDefaultSlots(time_slots, d)
                         /\ pc'[w] = "cal_created"
                         /\ cal'[w].data = cal[w].data
                    ELSE /\ time_slots' = time_slots
                         /\ LastEntryAdded(w) = UnavailableEntry
              /\ (pc[w] = "cal_created" /\ pc'[w] # "cal_created")
                 => /\ Len(time_slots[MorningKey(d)]) = 1
                    /\ Len(time_slots[AfternoonKey(d)]) = 1
                    /\ Len(LastEntryAdded(w).slots) = 2
                    /\ LastEntryAdded(w).slots[1].time = "10:00 AM"
                    /\ LastEntryAdded(w).slots[2].time = "2:00 PM"
                    /\ LastEntryAdded(w).total_capacity = 2 * DefaultCapacity]_vars

\* C20: a calendar is answered whose first day, before the current date,
\* is unavailable without slots and has no slot stored, and whose day of
\* the current date lists the two default slots, which are stored.
C20_PastDayEmptyTodayCreated ==
    /\ CalendarAnswered
    /\ Len(resp.calendar) = LastDay - FirstDay + 1
    /\ resp.calendar[1] = UnavailableEntry
    /\ \A k \in SlotKeys : k[1] < Today => time_slots[k] = <<>>
    /\ Len(resp.calendar[Today - FirstDay + 1].slots) = 2
    /\ resp.calendar[Today - FirstDay + 1].total_available = 2 * DefaultCapacity
    /\ time_slots[MorningKey(Today)] # <<>>
    /\ time_slots[AfternoonKey(Today)] # <<>>

\* C21: the bookings that get_bookings answers are exactly the bookings of
\* one date, each listed once, and they are listed from the most recently
\* created to the oldest (booking ids grow with the time of creation).
C21_BookingsNewestFirst ==
    (resp.op = "get_bookings" /\ resp.code = 200) =>
        /\ \A i, j \in 1..Len(resp.bookings) :
              /\ bookings[resp.bookings[i]].date = bookings[resp.bookings[j]].date
              /\ i < j => resp.bookings[i] > resp.bookings[j]
        /\ resp.bookings # <<>> =>
              \A b \in 1..Len(bookings) :
                  bookings[b].date = bookings[resp.bookings[1]].date
                      => \E i \in 1..Len(resp.bookings) : resp.bookings[i] = b

\* The kinds of the answers create_booking gives before its transaction.
ValidationKinds ==
    {"missing_fields", "negative_adults", "negative_children", "no_visitors",
     "bad_date", "no_pricing"}

\* C22: a create_booking request refused before the reservation step (a
\* required field missing or empty, negative adults or children, no visitor
\* at all, an unparsable date, no matching pricing) is answered with an
\* error and the step writes nothing; no request of that kind gets further,
\* so every request past validation and every stored Booking has a parsed
\* and priced date and a positive number of non-negative visitors.
C22_RejectedBeforeReservation ==
    [][/\ (resp'.op = "create_booking" /\ resp'.kind \in ValidationKinds)
             => (resp'.code = 400 /\ DatastoreUnchanged)
       /\ \A b \in 1..Len(bookings') :
             /\ bookings'[b].adults >= 0 /\ bookings'[b].children >= 0
             /\ bookings'[b].adults + bookings'[b].children > 0
             /\ bookings'[b].date # BadDate
             /\ PricingLookup(bookings'[b].nationality, bookings'[b].ticket_type,
                              bookings'[b].date) # 0
       /\ \A w \in Workers :
             pc'[w] \in CreateBookingPcs =>
                 /\ ctx'[w].adults >= 0 /\ ctx'[w].children >= 0
                 /\ ctx'[w].adults + ctx'[w].children > 0
                 /\ ctx'[w].date # BadDate]_vars

\* C22: a request without matching pricing has just been refused while a
\* booking and its slot are stored.
C22_RefusedForPricing ==
    /\ resp.op = "create_booking"
    /\ resp.kind = "no_pricing"
    /\ resp.code = 400
    /\ bookings # <<>>
    /\ \E k \in SlotKeys : time_slots[k] # <<>>

\* C23: when create_booking found no slot for its (date, timeSlot,
\* ticketType), the slot it created shows up only with the commit of the
\* request, together with the Booking: it has capacity 50 and, the capacity
\* check having passed for adults+children against 50 free places,
\* booked_count = adults+children. Until then the thread holds the new row
\* with booked_count 0, and when the request fails no row is added.
C23_NewSlotInSameTransaction ==
    [][\A w \in Workers :
          LET c == ctx[w]
              k == CtxKey(c)
          IN  /\ (pc[w] = "cb_insert" /\ pc'[w] = "cb_check")
                 => /\ ctx'[w].created
                    /\ ctx'[w].capacity = 50 /\ ctx'[w].booked_count = 0
                    /\ time_slots' = time_slots
              /\ (pc[w] = "cb_check" /\ c.created /\ pc'[w] # "cb_check")
                 => IF bookings' # bookings
                    THEN /\ c.adults + c.children <= 50
                         /\ time_slots'[k] =
                               Append(time_slots[k],
                                      [capacity |-> 50,
                                       booked_count |-> c.adults + c.children])
                         /\ bookings' = Append(bookings, NewBooking(c))
                    ELSE time_slots' = time_slots]_vars

\* C23: the one booking made, of 49 visitors, was answered as created and
\* its slot, which the request created, holds booked_count 49 of 50.
C23_NewSlotHoldsVisitors ==
    /\ resp.op = "create_booking"
    /\ resp.kind = "created"
    /\ Len(bookings) = 1
    /\ bookings[1].adults + bookings[1].children = 49
    /\ time_slots[BookingKey(bookings[1])] = <<[capacity |-> 50, booked_count |-> 49]>>

ReadOperations ==
    {"check_availability", "get_bookings", "get_booking", "get_pricing",
     "get_payment_status", "get_calendar_data"}

ReadPcs == {"availability", "gb_create", "gb_reply", "priced", "cal_loop", "cal_created"}

\* The step is taken by one of the read operations.
ReadOperationStep ==
    \/ served' = served + 1 /\ resp'.op \in ReadOperations
    \/ \E w \in Workers : pc[w] = "idle" /\ pc'[w] \in ReadPcs
    \/ \E w \in Workers :
        pc[w] \in ReadPcs /\ (pc'[w] # pc[w] \/ cal'[w] # cal[w])

\* C24: no step of check_availability, get_bookings, get_booking,
\* get_pricing, get_payment_status or get_calendar_data creates or changes a
\* Booking or a Payment or changes an existing TimeSlot row; the only change
\* such a step makes is to add default slots, of capacity 50 and
\* booked_count 0.
C24_ReadsOnlyAddDefaultSlots ==
    [][ReadOperationStep =>
          /\ bookings' = bookings
          /\ payments' = payments
          /\ \A k \in SlotKeys :
                /\ Len(time_slots'[k]) >= Len(time_slots[k])
                /\ SubSeq(time_slots'[k], 1, Len(time_slots[k])) = time_slots[k]
                /\ \A i \in (Len(time_slots[k]) + 1)..Len(time_slots'[k]) :
                      /\ time_slots'[k][i] = [capacity |-> 50, booked_count |-> 0]
                      /\ k \in {MorningKey(k[1]), AfternoonKey(k[1])}]_vars

\* C24: get_booking has answered a paid booking while the table holds that
\* booking's slot and the default slots that a read operation created for
\* another day.
C24_ReadAfterDefaultsAndPayment ==
    /\ resp.op = "get_booking"
    /\ resp.code = 200
    /\ resp.status = <<"Confirmed", "completed">>
    /\ payments # <<>>
    /\ \E k \in SlotKeys : time_slots[k] # <<>> /\ Head(time_slots[k]).booked_count > 0
    /\ \E d \in Dates :
          /\ time_slots[MorningKey(d)] = <<[capacity |-> 50, booked_count |-> 0]>>
          /\ time_slots[AfternoonKey(d)] = <<[capacity |-> 50, booked_count |-> 0]>>

\* The request that thread w serves is kept waiting by another session.
KeptWaiting(w) ==
    \/ WaitsForWriteLock(w)
    \/ pc[w] = "cb_insert" /\ InsertBlocked(w, CtxKey(ctx[w]))
    \/ pc[w] = "pay_flush" /\ BookingLockedByOther(w, ctx[w].booking_id)
    \/ /\ pc[w] = "pay_commit" /\ ctx[w].found
       /\ ~PaymentCapacityExceeded(ctx[w].booked_count, ctx[w].capacity)
       /\ SlotLockedByOther(w, CtxKey(ctx[w]))

\* A step changes the rows of no slot but the target slot of the request
\* that commits in it.
OnlyOwnSlotWritten ==
    \A k \in SlotKeys :
        time_slots'[k] # time_slots[k]
            => \E w \in Workers :
                  /\ pc[w] \in {"cb_check", "pay_commit"}
                  /\ pc'[w] # pc[w]
                  /\ CtxKey(ctx[w]) = k

\* C25: a create_booking or initialize_payment request changes the
\* booked_count of its own target slot only, and it is never kept waiting by
\* a concurrent request on a different slot: whenever a request waits, some
\* other request in progress targets the same slot.
C25_DifferentSlotsIndependent ==
    [][/\ OnlyOwnSlotWritten
       /\ \A w \in Workers :
             KeptWaiting(w)
                => \E o \in Workers \ {w} :
                      pc[o] # "idle" /\ CtxKey(ctx[o]) = CtxKey(ctx[w])]_vars

\* C26: for every month that exists (a year that datetime represents and a
\* month from 1 to 12) get_calendar_data answers a calendar that has exactly
\* one entry for each day from the first to the last day of the month,
\* December included, and each entry carries status, slots, total_available
\* and total_capacity.
C26_OneEntryPerDayOfMonth ==
    [][\A w \in Workers :
          LET y == ctx'[w].year
              m == ctx'[w].month
          IN  (/\ pc[w] = "idle"
               /\ pc'[w] = "cal_month"
               /\ DateExists(y, m, 1))
              => /\ resp'.code = 200
                 /\ DOMAIN resp'.calendar =
                       Ordinal(y, m, 1)..Ordinal(y, m, DaysInMonth(y, m))
                 /\ \A d \in DOMAIN resp'.calendar :
                       DOMAIN resp'.calendar[d] =
                          {"status", "slots", "total_available", "total_capacity"}]_vars

\* C27: the gateway's create_booking answers an empty body and a body in
\* which a required field is absent, null or the empty string with 400 in
\* the one step that receives it: no backend thread takes the request up
\* and the backend's state is unchanged; so the backend never finds a
\* required field missing in a request that came through the gateway.
C27_GatewayRefusesMalformed ==
    [][/\ (/\ resp'.op = "gateway_create_booking"
           /\ resp'.kind \in {"gateway_no_data", "gateway_missing_fields"})
          => /\ resp'.code = 400
             /\ served' = served + 1
             /\ \A w \in Workers : pc'[w] \in CreateBookingPcs => pc[w] = pc'[w]
             /\ DatastoreUnchanged
       /\ resp'.op = "gateway_create_booking" => resp'.kind # "missing_fields"]_vars

\* C27: the gateway has refused a body for a missing field while the
\* backend holds a booking made through it.
C27_RefusedAtGateway ==
    /\ resp.op = "gateway_create_booking"
    /\ resp.kind = "gateway_missing_fields"
    /\ resp.code = 400
    /\ bookings # <<>>

\* C28: in every reachable state every booking is either (pending,
\* pending) or (confirmed, completed): its status is confirmed exactly when
\* its payment_status is completed, also after a payment was rolled back;
\* and get_booking never answers a mixed pair.
C28_ConfirmedIffCompleted ==
    /\ \A b \in 1..Len(bookings) :
          /\ bookings[b].status \in {"pending", "confirmed"}
          /\ bookings[b].payment_status \in {"pending", "completed"}
          /\ bookings[b].status = "confirmed" <=> bookings[b].payment_status = "completed"
    /\ (resp.op = "get_booking" /\ resp.code = 200)
          => resp.status \in {<<"Pending", "pending">>, <<"Confirmed", "completed">>}

\* C28: a payment has just failed and was rolled back, its booking is
\* still (pending, pending), and another booking is (confirmed, completed).
C28_RolledBackStaysPending ==
    /\ resp.op = "initialize_payment"
    /\ resp.kind \in {"failed", "capacity"}
    /\ resp.booking_id \in 1..Len(bookings)
    /\ bookings[resp.booking_id].status = "pending"
    /\ bookings[resp.booking_id].payment_status = "pending"
    /\ \E b \in 1..Len(bookings) :
          bookings[b].status = "confirmed" /\ bookings[b].payment_status = "completed"

\* The number of confirmed bookings among the bookings bks of slot key k.
RECURSIVE ConfirmedOf(_, _)
ConfirmedOf(bks, k) ==
    IF bks = <<>> THEN 0
    ELSE (IF BookingKey(Head(bks)) = k /\ Head(bks).status = "confirmed" THEN 1 ELSE 0)
         + ConfirmedOf(Tail(bks), k)

\* C29: in every reachable state the booked_count of every slot is the sum
\* of adults+children over the bookings of that slot plus the number of
\* those bookings that are confirmed, however create_booking and
\* initialize_payment requests follow or overlap each other.
C29_BookedCountAccounting ==
    \A k \in SlotKeys :
        SumBooked(time_slots[k]) = SumVisitors(bookings, k) + ConfirmedOf(bookings, k)

\* C30: in every reachable state every stored Payment has status completed
\* and refers to an existing booking that is confirmed, every confirmed
\* booking has at least one Payment, and get_payment_status never answers a
\* pending Payment.
C30_PaymentsCompletedAndConfirmed ==
    /\ \A i \in 1..Len(payments) :
          /\ payments[i].status = "completed"
          /\ payments[i].booking_id \in 1..Len(bookings)
          /\ bookings[payments[i].booking_id].status = "confirmed"
    /\ \A b \in 1..Len(bookings) :
          bookings[b].status = "confirmed" => PaymentsOf(b) # {}
    /\ (resp.op = "get_payment_status" /\ resp.code = 200)
          => resp.status = <<"completed">>

\* C30: get_payment_status has answered the Payment of a confirmed booking
\* while another booking is pending and has no Payment.
C30_PaymentReadBesidePendingBooking ==
    /\ resp.op = "get_payment_status"
    /\ resp.code = 200
    /\ bookings[resp.booking_id].status = "confirmed"
    /\ \E b \in 1..Len(bookings) :
          bookings[b].status = "pending" /\ PaymentsOf(b) = {}

\* C31: in every reachable state every completed Payment has the amount
\* that the booking it refers to owes, its total_amount.
C31_PaymentAmountIsTotalAmount ==
    \A i \in 1..Len(payments) :
        payments[i].status = "completed"
            => /\ payments[i].booking_id \in 1..Len(bookings)
               /\ payments[i].amount = bookings[payments[i].booking_id].total_amount

\* C32: in every reachable state each Booking has a TimeSlot of its date,
\* time_slot and ticket_type; an initialize_payment that looks up the slot
\* of its booking finds it, and is never answered 'Time slot not found'.
C32_BookingHasSlot ==
    /\ \A b \in 1..Len(bookings) : time_slots[BookingKey(bookings[b])] # <<>>
    /\ \A w \in Workers : pc[w] = "pay_commit" => ctx[w].found
    /\ resp.kind # "slot_not_found"

\* C32: an initialize_payment has looked up and found the slot of its
\* booking, a slot that the booking's own request created.
C32_PaymentFoundSlot ==
    \E w \in Workers :
        /\ pc[w] = "pay_commit"
        /\ ctx[w].found
        /\ Len(bookings) = 1
        /\ ctx[w].booking_id = 1
        /\ time_slots[BookingKey(bookings[1])] =
              <<[capacity |-> 50,
                 booked_count |-> bookings[1].adults + bookings[1].children]>>

\* The slot of key k in table t has no place left.
SlotFull(t, k) == t[k] # <<>> /\ Head(t[k]).booked_count = Head(t[k]).capacity

NoRowDeleted(rows, rows_after) == Len(rows_after) >= Len(rows)

C35_FrontendAnswersCreated ==
    [][\A w \in Workers :
          (pc[w] = "fe_email" /\ pc'[w] # "fe_email")
             => /\ resp'.op = "frontend_create_booking"
                /\ resp'.code = 200
                /\ resp'.booking_id = ctx[w].booking_id
                /\ resp'.booking_id \in 1..Len(bookings')
                /\ resp'.email_answer \in EmailAnswers
                /\ (resp'.email = "sent" <=> resp'.email_answer = "ok")
                /\ (resp'.email = "failed" <=> resp'.email_answer # "ok")
                /\ DatastoreUnchanged]_vars

\* C35: the email request raised, and the frontend answered 200 with the
\* id of the booking, which is stored and pending.
C35_CreatedThoughEmailRaised ==
    /\ resp.op = "frontend_create_booking"
    /\ resp.code = 200
    /\ resp.email_answer = "exception"
    /\ resp.email = "failed"
    /\ resp.booking_id \in 1..Len(bookings)
    /\ bookings[resp.booking_id].status = "pending"

====
